---- MODULE Spec2Model ----
(***************************************************************************)
(* FocusFlow API (src/server.js): the in-memory task store and the         *)
(* streak / XP ledger, with the request handlers that read or change them. *)
(* The task-breakdown handler, which touches neither, is modelled with its *)
(* upstream call and its pattern-based fallback.                           *)
(*                                                                         *)
(* Time is counted in clock ticks; a UTC calendar day is TicksPerDay ticks *)
(* long, and the date of an instant is its tick divided by TicksPerDay     *)
(* (toISOString().split('T')[0]).  A synchronous handler runs at one       *)
(* instant; a handler that awaits the upstream model is split at its await *)
(* and other handlers and the clock may run in between.                    *)
(*                                                                         *)
(* A response is the value of a reply operator in the state the request    *)
(* meets; responses are not part of the state.                             *)
(*                                                                         *)
(* A task is a record id, name, steps, currentStep, completed; a step is   *)
(* represented by its minutes, and the steps a caller supplies are a list  *)
(* of steps, as the data model has it.  createdAt plays no part in any     *)
(* handler and is left out.                                                *)
(***************************************************************************)
EXTENDS Integers, Sequences, FiniteSets, TLC

\* ---- bounds of the model
MaxId == 2          \* create is offered while nextId <= MaxId
MaxTick == 4        \* the clock stops at this tick
TicksPerDay == 2    \* clock granularity: ticks in one calendar day
MaxPending == 1     \* requests that may wait on the upstream model at once
MaxBurst == 6       \* ids offered in the completion-burst specification
MaxStreak == 3      \* largest stored streak drawn in the rollover specification
MaxBreakdowns == 2   \* breakdown requests that may wait on the upstream model at once

\* ---- inputs
Names == {"", "task"}
StepLists == {<<>>, <<2, 5, 10>>}
IdParams == 1..(MaxId + 1)
BurstIdParams == 1..MaxBurst

VARIABLES
    tasks,            \* let tasks = []                    (line 127)
    completedToday,   \* let completedToday = []           (line 128)
    streak,           \* let streak = 0                    (line 129)
    totalXP,          \* let totalXP = 0                   (line 130)
    lastActiveDate,   \* date at module load               (line 131)
    nextId,           \* let nextId = 1                    (line 132)
    now,              \* the wall clock, in ticks
    awaiting,         \* handlers suspended at `await askAI(...)`, per route;
                      \* for breakdown, the `task` each of them holds
    issued,           \* history: ids returned by create, in order
    doneIds,          \* history: ids whose complete succeeded
    doneDays          \* history: dates on which some complete succeeded

vars == <<tasks, completedToday, streak, totalXP, lastActiveDate, nextId,
          now, awaiting, issued, doneIds, doneDays>>

store == <<tasks, completedToday, streak, totalXP, lastActiveDate, nextId>>
history == <<issued, doneIds, doneDays>>

\* ---- dates
\* new Date().toISOString().split('T')[0]
DateOf(t) == t \div TicksPerDay
Today == DateOf(now)
\* mutant of Yesterday: one tick is subtracted instead of one day
YesterdayOneTick == DateOf(now - 1)

\* new Date(Date.now() - 86400000).toISOString().split('T')[0]
Yesterday == DateOf(now - TicksPerDay)

\* ---- helpers on the task list
\* mutant of FindIndex: `t.id = id` for `t.id === id`, true of the first task
FindIndexAssign(id) == IF Len(tasks) > 0 THEN 1 ELSE 0

\* tasks.findIndex(t => t.id === id); 0 stands for -1 (not found)
FindIndex(id) ==
    IF \E i \in 1..Len(tasks) : tasks[i].id = id
    THEN CHOOSE i \in 1..Len(tasks) :
            /\ tasks[i].id = id
            /\ \A j \in 1..(i - 1) : tasks[j].id # id
    ELSE 0

\* tasks.splice(idx, 1)
Splice(s, idx) == [i \in 1..(Len(s) - 1) |-> IF i < idx THEN s[i] ELSE s[i + 1]]

\* tasks.filter(t => t.id !== id)
FilterOut(s, id) == SelectSeq(s, LAMBDA t : t.id # id)

\* handlers waiting on the upstream model
Pending == awaiting.summary + awaiting.coach

\* the ledger is being used while the stored date is not the current date
Stale == lastActiveDate # Today

\* mutant of UpdateStreak: completedToday is not cleared on a new day
UpdateStreakKeeping ==
    IF lastActiveDate # Today
    THEN [streak |-> IF lastActiveDate = Yesterday THEN streak + 1 ELSE 1,
          lastActiveDate |-> Today,
          completedToday |-> completedToday]
    ELSE [streak |-> streak,
          lastActiveDate |-> lastActiveDate,
          completedToday |-> completedToday]

\* ---- Helper: Update streak
UpdateStreak ==
    IF lastActiveDate # Today
    THEN [streak |-> IF lastActiveDate = Yesterday THEN streak + 1 ELSE 1,
          lastActiveDate |-> Today,
          completedToday |-> <<>>]
    ELSE [streak |-> streak,
          lastActiveDate |-> lastActiveDate,
          completedToday |-> completedToday]

\* ---- Completion messages
Messages == << <<"You did it! First task done!">>,
               <<"Two down! You're on a roll!">>,
               <<"THREE tasks! You're unstoppable!">>,
               <<"Four tasks done - who even ARE you?!">>,
               <<"FIVE TASKS! Legend status!">> >>

GenericMessage(count) == <<ToString(count), " tasks done! You're a machine!">>

Min(a, b) == IF a < b THEN a ELSE b

\* messages[Math.min(count - 1, messages.length - 1)] || `${count} tasks done! ...`
\* (JavaScript indexes from 0; an index below 0 reads undefined)
getCompletionMessage(count) ==
    LET i == Min(count - 1, Len(Messages) - 1)
    IN  IF i >= 0 THEN Messages[i + 1] ELSE GenericMessage(count)

\* ---- rewards
\* mutant of XpEarned: the steps are not multiplied by 5
XpEarnedFlat(task) == 10 + Len(task.steps)

\* const xpEarned = 10 + (task.steps.length * 5)
XpEarned(task) == 10 + (Len(task.steps) * 5)
\* totalXP += 5
StepXP == 5
\* mutant of CanAdvance: off by one, the step index may reach steps.length
CanAdvancePast(task) == task.currentStep < Len(task.steps)

\* task.currentStep < task.steps.length - 1
CanAdvance(task) == task.currentStep < Len(task.steps) - 1
\* mutant of IdAfter: nextId is not incremented
IdKept(id) == id

\* id: nextId++
IdAfter(id) == id + 1

\* ---- the initial state: the module has just been loaded
Init ==
    /\ tasks = <<>>
    /\ completedToday = <<>>
    /\ streak = 0
    /\ totalXP = 0
    /\ now = 0
    /\ lastActiveDate = DateOf(now)
    /\ nextId = 1
    /\ awaiting = [summary |-> 0, coach |-> 0, breakdown |-> <<>>]
    /\ issued = <<>>
    /\ doneIds = {}
    /\ doneDays = {}

\* ---- the clock
Tick ==
    /\ now < MaxTick
    /\ now' = now + 1
    /\ UNCHANGED <<store, awaiting, history>>

\* ---- GET /api/tasks
GetTasksReply ==
    [status |-> 200, tasks |-> tasks,
     currentTask |-> IF Len(tasks) > 0 THEN <<tasks[1]>> ELSE <<>>,
     totalTasks |-> Len(tasks)]

GetTasks ==
    LET u == UpdateStreak
    IN  /\ streak' = u.streak
        /\ lastActiveDate' = u.lastActiveDate
        /\ completedToday' = u.completedToday
        /\ UNCHANGED <<tasks, totalXP, nextId, now, awaiting, history>>

\* ---- POST /api/tasks
NewTask(name, steps) ==
    [id |-> nextId, name |-> name, steps |-> steps,
     currentStep |-> 0, completed |-> FALSE]

CreateReply(name, steps) ==
    IF name = ""
    THEN [status |-> 400, task |-> <<>>]
    ELSE [status |-> 201, task |-> <<NewTask(name, steps)>>]

Create(name, steps) ==
    /\ IF name = ""
       THEN UNCHANGED <<store, history>>
       ELSE /\ nextId' = IdAfter(nextId)
            /\ tasks' = Append(tasks, NewTask(name, steps))
            /\ issued' = Append(issued, NewTask(name, steps).id)
            /\ UNCHANGED <<completedToday, streak, totalXP, lastActiveDate,
                           doneIds, doneDays>>
    /\ UNCHANGED <<now, awaiting>>

\* ---- POST /api/tasks/:id/complete   (id is parseInt(req.params.id))
\* the task at idx, marked completed
Completed(idx) == [tasks[idx] EXCEPT !.completed = TRUE]

\* { ...task, completedAt: new Date().toISOString(), xpEarned }
Snapshot(task) ==
    [id |-> task.id, name |-> task.name, steps |-> task.steps,
     currentStep |-> task.currentStep, completed |-> task.completed,
     completedAt |-> now, xpEarned |-> XpEarned(task)]

CompleteReply(id) ==
    LET u == UpdateStreak
        idx == FindIndex(id)
    IN  IF idx = 0
        THEN [status |-> 404]
        ELSE LET task == Completed(idx)
                 done == Append(u.completedToday, Snapshot(task))
             IN  [status |-> 200, task |-> task,
                  xpEarned |-> XpEarned(task),
                  totalXP |-> totalXP + XpEarned(task),
                  streak |-> u.streak,
                  completedToday |-> Len(done),
                  message |-> getCompletionMessage(Len(done)),
                  stale |-> u.lastActiveDate # Today]

\* the store as complete(id) leaves it
CompleteAfter(id) ==
    LET u == UpdateStreak
        idx == FindIndex(id)
    IN  IF idx = 0
        THEN [tasks |-> tasks, totalXP |-> totalXP,
              completedToday |-> u.completedToday,
              streak |-> u.streak, lastActiveDate |-> u.lastActiveDate]
        ELSE LET task == Completed(idx)
             IN  [tasks |-> Splice(tasks, idx),
                  totalXP |-> totalXP + XpEarned(task),
                  completedToday |-> Append(u.completedToday, Snapshot(task)),
                  streak |-> u.streak, lastActiveDate |-> u.lastActiveDate]

Complete(id) ==
    LET after == CompleteAfter(id)
        idx == FindIndex(id)
    IN  /\ tasks' = after.tasks
        /\ totalXP' = after.totalXP
        /\ completedToday' = after.completedToday
        /\ streak' = after.streak
        /\ lastActiveDate' = after.lastActiveDate
        /\ IF idx = 0
           THEN UNCHANGED <<doneIds, doneDays>>
           ELSE /\ doneIds' = doneIds \cup {tasks[idx].id}
                /\ doneDays' = doneDays \cup {DateOf(now)}
        /\ UNCHANGED <<nextId, now, awaiting, issued>>

\* ---- POST /api/tasks/:id/next-step   (no updateStreak() in this handler)
NextStepReply(id) ==
    LET idx == FindIndex(id)
    IN  IF idx = 0
        THEN [status |-> 404]
        ELSE LET task == tasks[idx]
             IN  [status |-> 200,
                  task |-> IF CanAdvance(task)
                           THEN [task EXCEPT !.currentStep = @ + 1] ELSE task,
                  xpEarned |-> 5,
                  totalXP |-> IF CanAdvance(task) THEN totalXP + StepXP ELSE totalXP,
                  stale |-> CanAdvance(task) /\ Stale]

\* mutant of NextStepAfter: the step XP is taken off instead of added
NextStepAfterMinus(id) ==
    LET idx == FindIndex(id)
    IN  IF idx # 0 /\ CanAdvance(tasks[idx])
        THEN [tasks |-> [tasks EXCEPT ![idx].currentStep = @ + 1],
              totalXP |-> totalXP - StepXP]
        ELSE [tasks |-> tasks, totalXP |-> totalXP]

\* the store as next-step leaves it
NextStepAfter(id) ==
    LET idx == FindIndex(id)
    IN  IF idx # 0 /\ CanAdvance(tasks[idx])
        THEN [tasks |-> [tasks EXCEPT ![idx].currentStep = @ + 1],
              totalXP |-> totalXP + StepXP]
        ELSE [tasks |-> tasks, totalXP |-> totalXP]

NextStep(id) ==
    /\ tasks' = NextStepAfter(id).tasks
    /\ totalXP' = NextStepAfter(id).totalXP
    /\ UNCHANGED <<completedToday, streak, lastActiveDate, nextId,
                   now, awaiting, history>>

\* ---- DELETE /api/tasks/:id
DeleteReply(id) == [status |-> 200, deleted |-> TRUE]

\* the store as delete leaves it
DeleteAfter(id) == [tasks |-> FilterOut(tasks, id)]

Delete(id) ==
    /\ tasks' = DeleteAfter(id).tasks
    /\ UNCHANGED <<completedToday, streak, totalXP, lastActiveDate, nextId,
                   now, awaiting, history>>

\* ---- POST /api/ai/coach, up to `await askAI(...)`: an empty message is
\* answered 400; otherwise the prompt is built from streak and totalXP, with
\* no updateStreak() before it
CoachPrompt(message) ==
    [streak |-> streak, level |-> (totalXP \div 100) + 1, stale |-> Stale]

CoachAsk(message) ==
    IF message = ""
    THEN UNCHANGED <<store, now, awaiting, history>>
    ELSE /\ Pending < MaxPending
         /\ awaiting' = [awaiting EXCEPT !.coach = @ + 1]
         /\ UNCHANGED <<store, now, history>>

\* ---- POST /api/ai/coach, after the await: the upstream text (ok) or the
\* fallback text; no state is read
CoachReplyOf(ok) ==
    [status |-> 200,
     poweredBy |-> IF ok THEN "Llama 3.3 70B (AWS Bedrock)" ELSE "fallback"]

CoachReply(ok) ==
    /\ awaiting.coach > 0
    /\ awaiting' = [awaiting EXCEPT !.coach = @ - 1]
    /\ UNCHANGED <<store, now, history>>

\* ---- GET /api/ai/summary, up to `await askAI(...)`
SummaryAsk ==
    LET u == UpdateStreak
    IN  /\ Pending < MaxPending
        /\ streak' = u.streak
        /\ lastActiveDate' = u.lastActiveDate
        /\ completedToday' = u.completedToday
        /\ awaiting' = [awaiting EXCEPT !.summary = @ + 1]
        /\ UNCHANGED <<tasks, totalXP, nextId, now, history>>

\* ---- GET /api/ai/summary, after the await: the stats (ok) or the fallback
\* sentence are read from the ledger as it is then
SummaryReplyOf(ok) ==
    IF ok
    THEN [status |-> 200, completedToday |-> Len(completedToday),
          streak |-> streak, totalXP |-> totalXP,
          poweredBy |-> "Llama 3.3 70B (AWS Bedrock)", stale |-> Stale]
    ELSE [status |-> 200, completedToday |-> Len(completedToday),
          poweredBy |-> "fallback", stale |-> Stale]

SummaryReply(ok) ==
    /\ awaiting.summary > 0
    /\ awaiting' = [awaiting EXCEPT !.summary = @ - 1]
    /\ UNCHANGED <<store, now, history>>

\* ---- GET /api/stats
GetStatsReply ==
    LET u == UpdateStreak
    IN  [status |-> 200, totalXP |-> totalXP, streak |-> u.streak,
         level |-> (totalXP \div 100) + 1,
         xpToNextLevel |-> 100 - (totalXP % 100),
         completedToday |-> Len(u.completedToday),
         pendingTasks |-> Len(tasks),
         stale |-> u.lastActiveDate # Today]

GetStats ==
    LET u == UpdateStreak
    IN  /\ streak' = u.streak
        /\ lastActiveDate' = u.lastActiveDate
        /\ completedToday' = u.completedToday
        /\ UNCHANGED <<tasks, totalXP, nextId, now, awaiting, history>>

\* ---- the service: any request at any time, the clock running
DoCreate == nextId <= MaxId /\ \E name \in Names, steps \in StepLists : Create(name, steps)
DoComplete == \E id \in IdParams : Complete(id)
DoNextStep == \E id \in IdParams : NextStep(id)
DoDelete == \E id \in IdParams : Delete(id)
DoCoachAsk == \E message \in Names : CoachAsk(message)
DoCoachReply == \E ok \in BOOLEAN : CoachReply(ok)
DoSummaryReply == \E ok \in BOOLEAN : SummaryReply(ok)

Next ==
    \/ Tick
    \/ GetTasks
    \/ DoCreate
    \/ DoComplete
    \/ DoNextStep
    \/ DoDelete
    \/ DoCoachAsk
    \/ DoCoachReply
    \/ SummaryAsk
    \/ DoSummaryReply
    \/ GetStats

Spec == Init /\ [][Next]_vars

\* ---- the ledger alone: any stored streak and date (a date ahead of the
\* clock included) meets any current date, and ledger-touching reads arrive
SampleRecord(d) ==
    [id |-> 1, name |-> "task", steps |-> <<>>, currentStep |-> 0,
     completed |-> TRUE, completedAt |-> d * TicksPerDay, xpEarned |-> 10]

InitLedger ==
    /\ now \in 0..MaxTick
    /\ lastActiveDate \in 0..(DateOf(MaxTick) + 1)
    /\ streak \in 0..MaxStreak
    /\ \E won \in BOOLEAN :
          /\ completedToday = IF won THEN <<SampleRecord(lastActiveDate)>> ELSE <<>>
          /\ totalXP = IF won THEN 10 ELSE 0
          /\ nextId = IF won THEN 2 ELSE 1
          /\ issued = IF won THEN <<1>> ELSE <<>>
          /\ doneIds = IF won THEN {1} ELSE {}
          /\ doneDays = IF won THEN {lastActiveDate} ELSE {}
    /\ tasks = <<>>
    /\ awaiting = [summary |-> 0, coach |-> 0, breakdown |-> <<>>]

NextLedger ==
    \/ Tick
    \/ GetTasks
    \/ GetStats

SpecLedger == InitLedger /\ [][NextLedger]_vars

\* C1: a ledger-touching call (updateStreak) leaves streak, completedToday and
\* lastActiveDate alone when the stored date is today; adds exactly 1 to streak
\* when the stored date is exactly the day before today; sets streak to 1 in
\* every other case (a gap of two days or more, or a stored date in the
\* future); and in the last two cases empties completedToday and stores today.
C1_DayRollover ==
    [][(GetTasks \/ GetStats) =>
        /\ lastActiveDate = Today =>
              /\ streak' = streak
              /\ completedToday' = completedToday
              /\ lastActiveDate' = lastActiveDate
        /\ lastActiveDate = Today - 1 =>
              /\ streak' = streak + 1
              /\ completedToday' = <<>>
              /\ lastActiveDate' = Today
        /\ lastActiveDate \notin {Today - 1, Today} =>
              /\ streak' = 1
              /\ completedToday' = <<>>
              /\ lastActiveDate' = Today]_vars

\* a stored streak of MaxStreak has been carried over a day boundary
C1_Witness ==
    /\ streak = MaxStreak + 1
    /\ lastActiveDate = Today
    /\ completedToday = <<>>

\* ---- a burst of completions within one day: bare tasks are created and
\* completed, up to MaxBurst of them
BurstCreate == nextId <= MaxBurst /\ Create("task", <<>>)
BurstComplete == \E id \in BurstIdParams : Complete(id)

NextBurst ==
    \/ BurstCreate
    \/ BurstComplete

SpecBurst == Init /\ [][NextBurst]_vars

\* ---- JSON values and strings.  A string is the sequence of its characters;
\* a JSON value is a record with its type and, where it has one, its content
Str(chars) == [type |-> "string", chars |-> chars]
Num(n) == [type |-> "number", num |-> n]
Bool(b) == [type |-> "boolean", bool |-> b]
Undefined == [type |-> "undefined"]
Null == [type |-> "null"]
Object == [type |-> "object"]
Array(items) == [type |-> "array", items |-> items]

\* !value
Truthy(v) ==
    CASE v.type = "undefined" -> FALSE
      [] v.type = "null" -> FALSE
      [] v.type = "boolean" -> v.bool
      [] v.type = "number" -> v.num # 0
      [] v.type = "string" -> Len(v.chars) > 0
      [] OTHER -> TRUE

UpperCase == <<"A", "B", "C", "D", "E", "F", "G", "H", "I", "J", "K", "L", "M",
               "N", "O", "P", "Q", "R", "S", "T", "U", "V", "W", "X", "Y", "Z">>
LowerCase == <<"a", "b", "c", "d", "e", "f", "g", "h", "i", "j", "k", "l", "m",
               "n", "o", "p", "q", "r", "s", "t", "u", "v", "w", "x", "y", "z">>

\* String.prototype.toLowerCase, and whether the value has the method at all
LowerChar(c) ==
    IF \E i \in 1..Len(UpperCase) : UpperCase[i] = c
    THEN LowerCase[CHOOSE i \in 1..Len(UpperCase) : UpperCase[i] = c]
    ELSE c
toLowerCase(chars) == [i \in 1..Len(chars) |-> LowerChar(chars[i])]
HasToLowerCase(v) == v.type = "string"

\* String.prototype.includes
includes(chars, word) ==
    \E i \in 0..(Len(chars) - Len(word)) :
        SubSeq(chars, i + 1, i + Len(word)) = word

\* ---- breakdownTask(taskName): the keyword sets in their order of test, and
\* the minutes of the six steps each template pushes
Templates ==
    <<
    [words |-> {<<"c", "l", "e", "a", "n">>,
                <<"t", "i", "d", "y">>,
                <<"o", "r", "g", "a", "n", "i", "z", "e">>},
     steps |-> <<2, 5, 5, 5, 2, 10>>],
    [words |-> {<<"s", "t", "u", "d", "y">>,
                <<"r", "e", "a", "d">>,
                <<"l", "e", "a", "r", "n">>,
                <<"h", "o", "m", "e", "w", "o", "r", "k">>},
     steps |-> <<3, 10, 5, 5, 10, 2>>],
    [words |-> {<<"e", "m", "a", "i", "l">>,
                <<"i", "n", "b", "o", "x">>,
                <<"r", "e", "p", "l", "y">>,
                <<"m", "e", "s", "s", "a", "g", "e">>},
     steps |-> <<2, 2, 3, 5, 5, 3>>],
    [words |-> {<<"c", "o", "d", "e">>,
                <<"b", "u", "i", "l", "d">>,
                <<"p", "r", "o", "g", "r", "a", "m">>,
                <<"d", "e", "v", "e", "l", "o", "p">>,
                <<"p", "r", "o", "j", "e", "c", "t">>},
     steps |-> <<3, 2, 10, 5, 5, 15>>],
    [words |-> {<<"w", "r", "i", "t", "e">>,
                <<"e", "s", "s", "a", "y">>,
                <<"r", "e", "p", "o", "r", "t">>,
                <<"p", "a", "p", "e", "r">>},
     steps |-> <<3, 5, 10, 3, 15, 5>>],
    [words |-> {<<"e", "x", "e", "r", "c", "i", "s", "e">>,
                <<"w", "o", "r", "k", "o", "u", "t">>,
                <<"g", "y", "m">>,
                <<"r", "u", "n">>},
     steps |-> <<3, 2, 5, 10, 5, 1>>]
    >>

\* the first template one of whose words the lower-cased name includes, else
\* the generic six steps
GenericSteps == <<2, 5, 10, 3, 10, 2>>

breakdownTask(taskName) ==
    LET name == toLowerCase(taskName)
        Matches(k) == \E word \in Templates[k].words : includes(name, word)
        hits == {k \in 1..Len(Templates) : Matches(k)}
    IN  IF hits = {}
        THEN GenericSteps
        ELSE Templates[CHOOSE k \in hits : \A j \in hits : k <= j].steps

\* steps.reduce((sum, s) => sum + s.mins, 0) over a list of minutes
RECURSIVE SumMins(_)
SumMins(steps) ==
    IF steps = <<>> THEN 0 ELSE steps[1] + SumMins(Tail(steps))

\* ---- POST /api/ai/breakdown: the values req.body.task may have
TaskValues ==
    { Undefined, Null, Bool(FALSE), Num(0), Str(<<>>),
      Str(<<"C", "l", "e", "a", "n">>),
      Str(<<"s", "t", "u", "d", "y">>),
      Str(<<"i", "n", "b", "o", "x">>),
      Str(<<"c", "o", "d", "e">>),
      Str(<<"e", "s", "s", "a", "y">>),
      Str(<<"g", "y", "m">>),
      Str(<<"n", "a", "p">>),
      Str(<<"t", "i", "d", "y", " ", "c", "o", "d", "e">>),
      Num(5), Bool(TRUE), Object, Array(<<>>) }

\* ---- what `await askAI(prompt)` may come back with: a thrown error, or a
\* text.  A text is described by the JSON value it spells (Invalid when it
\* spells none) and by whether it is wrapped in ``` fences
Invalid == [type |-> "invalid"]
StepObject(mins) == [type |-> "object", mins |-> mins]

AIValues ==
    { Invalid, Null, Object,
      Array(<<StepObject(Num(5)), StepObject(Num(10))>>),
      Array(<<StepObject(Undefined)>>),
      Array(<<Null>>) }

AIResults ==
    {[threw |-> TRUE]} \cup
    {[threw |-> FALSE, fenced |-> f, json |-> j] : f \in BOOLEAN, j \in AIValues}

\* aiResponse.replace(/```json?\n?/g, '').replace(/```/g, '').trim()
StripFences(text) == [text EXCEPT !.fenced = FALSE]

\* JSON.parse throws on a text that is fenced or spells no JSON value
ParseThrows(text) == text.fenced \/ text.json.type = "invalid"

\* steps.reduce(...) throws on a value that is no array, and on an item whose
\* .mins cannot be read
ReduceThrows(steps) ==
    \/ steps.type # "array"
    \/ \E i \in 1..Len(steps.items) : steps.items[i].type \in {"null", "undefined"}

\* the sum the reduce yields when it does not throw: a number, or NaN when an
\* item has no numeric mins
NaN == [type |-> "number", nan |-> TRUE]
TotalMins(steps) ==
    IF \A i \in 1..Len(steps.items) : steps.items[i].mins.type = "number"
    THEN Num(SumMins([i \in 1..Len(steps.items) |-> steps.items[i].mins.num]))
    ELSE NaN

\* whether the try block (lines 354-381) throws
TryThrows(ai) ==
    \/ ai.threw
    \/ ParseThrows(StripFences(ai))
    \/ ReduceThrows(StripFences(ai).json)

\* ---- POST /api/ai/breakdown, up to `await askAI(prompt)`: a falsy task is
\* answered 400, any other value is kept by the suspended handler
BreakdownAskReply(task) == [status |-> 400, error |-> "Task description required"]

BreakdownAsk(task) ==
    IF ~Truthy(task)
    THEN UNCHANGED <<store, now, awaiting, history>>
    ELSE /\ Len(awaiting.breakdown) < MaxBreakdowns
         /\ awaiting' = [awaiting EXCEPT !.breakdown = Append(@, task)]
         /\ UNCHANGED <<store, now, history>>

\* ---- POST /api/ai/breakdown, after the await.  The reply of the try block:
AIReply(task, ai) ==
    [answered |-> TRUE, status |-> 200, originalTask |-> task,
     steps |-> StripFences(ai).json.items,
     totalMins |-> TotalMins(StripFences(ai).json),
     poweredBy |-> "Claude AI (AWS Bedrock)"]

\* the reply of the catch block, when breakdownTask(task) returns
FallbackReply(task) ==
    [answered |-> TRUE, status |-> 200, originalTask |-> task,
     steps |-> breakdownTask(task.chars),
     totalMins |-> Num(SumMins(breakdownTask(task.chars))),
     poweredBy |-> "pattern-based (AI unavailable)"]

\* breakdownTask(task) throws inside the catch block when task has no
\* toLowerCase: the async handler's promise rejects.  The router either leaves
\* the request without a response or passes the error to the default error
\* handler, which answers 500, depending on the Express release installed
Rejected == {[answered |-> FALSE], [answered |-> TRUE, status |-> 500]}

BreakdownReplies(task, ai) ==
    IF ~TryThrows(ai) THEN {AIReply(task, ai)}
    ELSE IF HasToLowerCase(task) THEN {FallbackReply(task)}
    ELSE Rejected

\* the handler ends either way: it calls askAI once and never suspends again
BreakdownReply(i, ai) ==
    /\ i \in 1..Len(awaiting.breakdown)
    /\ awaiting' = [awaiting EXCEPT !.breakdown = Splice(@, i)]
    /\ UNCHANGED <<store, now, history>>

DoBreakdownAsk == \E task \in TaskValues : BreakdownAsk(task)
DoBreakdownReply ==
    \E i \in 1..Len(awaiting.breakdown), ai \in AIResults : BreakdownReply(i, ai)

NextBreakdown ==
    \/ DoBreakdownAsk
    \/ DoBreakdownReply

SpecBreakdown == Init /\ [][NextBreakdown]_vars

\* ---- what the claims speak of
Active(id) == \E i \in 1..Len(tasks) : tasks[i].id = id
ActiveIds == {tasks[i].id : i \in 1..Len(tasks)}
Max(a, b) == IF a > b THEN a ELSE b
Last(s) == s[Len(s)]
Front(s) == SubSeq(s, 1, Len(s) - 1)
\* today's list as a request finds it: emptied if the day has changed
TodaysList == IF lastActiveDate = Today THEN completedToday ELSE <<>>

\* C2: no operation uses streak or completedToday, or changes totalXP, while
\* lastActiveDate differs from the current date: each of GET /api/tasks,
\* complete, next-step, GET /api/stats, GET /api/ai/summary and POST
\* /api/ai/coach has run the day rollover before that use.
C2_FreshLedgerUse ==
    [][/\ \A id \in IdParams :
            /\ Complete(id) /\ Active(id) => ~CompleteReply(id).stale
            /\ NextStep(id) /\ Active(id) => ~NextStepReply(id).stale
       /\ GetStats => ~GetStatsReply.stale
       /\ \A ok \in BOOLEAN : SummaryReply(ok) => ~SummaryReplyOf(ok).stale
       /\ CoachAsk("task") => ~CoachPrompt("task").stale]_vars

\* C3: complete(id) on an active task with N steps adds exactly 10 + 5N to
\* totalXP and reports that as xpEarned (25 for N = 3), removes exactly that
\* task from the active list, the others keeping their order, and puts exactly
\* one record for it, completed and carrying that xpEarned, at the end of
\* today's completed list.
C3_CompleteRewards ==
    \A id \in IdParams : Active(id) =>
        LET N == Len(tasks[FindIndex(id)].steps)
            after == CompleteAfter(id)
            reply == CompleteReply(id)
        IN  /\ after.totalXP = totalXP + 10 + 5 * N
            /\ reply.status = 200
            /\ reply.xpEarned = 10 + 5 * N
            /\ reply.totalXP = after.totalXP
            /\ N = 3 => reply.xpEarned = 25
            /\ after.tasks = SelectSeq(tasks, LAMBDA t : t.id # id)
            /\ Len(after.tasks) = Len(tasks) - 1
            /\ Len(after.completedToday) = Len(TodaysList) + 1
            /\ Front(after.completedToday) = TodaysList
            /\ Last(after.completedToday).id = id
            /\ Last(after.completedToday).completed
            /\ Last(after.completedToday).xpEarned = 10 + 5 * N

\* a three-step task has been completed for 25 XP while another stays active
C3_Witness ==
    /\ completedToday # <<>>
    /\ Len(Last(completedToday).steps) = 3
    /\ Last(completedToday).xpEarned = 25
    /\ totalXP >= 25
    /\ Len(tasks) = 1
    /\ tasks[1].id > Last(completedToday).id

\* every active task's step index is within its steps
StepsInRange ==
    \A i \in 1..Len(tasks) :
        /\ 0 <= tasks[i].currentStep
        /\ tasks[i].currentStep <= Max(0, Len(tasks[i].steps) - 1)

\* C4: advanceStep(id) on an existing task at its last step index (a task with
\* no steps included) leaves currentStep and totalXP alone and answers 200;
\* below the last index it adds exactly 1 to currentStep and exactly 5 to
\* totalXP; so every active task always has
\* 0 <= currentStep <= max(0, number of steps - 1).
C4_AdvanceStep ==
    /\ StepsInRange
    /\ \A id \in IdParams : Active(id) =>
          LET idx == FindIndex(id)
              t == tasks[idx]
              after == NextStepAfter(id)
              reply == NextStepReply(id)
          IN  /\ reply.status = 200
              /\ reply.task = after.tasks[idx]
              /\ Len(after.tasks) = Len(tasks)
              /\ \A i \in 1..Len(tasks) : i # idx => after.tasks[i] = tasks[i]
              /\ after.tasks[idx].id = id
              /\ after.tasks[idx].steps = t.steps
              /\ IF t.currentStep >= Len(t.steps) - 1
                 THEN /\ after.tasks[idx].currentStep = t.currentStep
                      /\ after.totalXP = totalXP
                 ELSE /\ after.tasks[idx].currentStep = t.currentStep + 1
                      /\ after.totalXP = totalXP + 5

\* a task has been advanced to its last step index, 5 XP a step
C4_Witness ==
    /\ \E i \in 1..Len(tasks) :
          /\ Len(tasks[i].steps) = 3
          /\ tasks[i].currentStep = 2
    /\ totalXP = 10

\* C5: each successful create returns an id above every id returned before,
\* so no id is assigned twice, deleted and completed tasks' ids included, and
\* the active list never holds two tasks with the same id.
C5_IdsUnique ==
    /\ \A i, j \in 1..Len(issued) : i < j => issued[i] < issued[j]
    /\ \A i, j \in 1..Len(tasks) : i # j => tasks[i].id # tasks[j].id
    /\ \A i \in 1..Len(tasks) : \E j \in 1..Len(issued) : issued[j] = tasks[i].id
    /\ doneIds \subseteq {issued[j] : j \in 1..Len(issued)}

\* two ids were issued; the first was deleted, the second is active
C5_Witness ==
    /\ Len(issued) >= 2
    /\ doneIds = {}
    /\ Len(tasks) = 1
    /\ tasks[1].id = Last(issued)

\* the number of consecutive dates, ending at d, on each of which a task was
\* completed
RECURSIVE CompletionRun(_)
CompletionRun(d) == IF d \in doneDays THEN 1 + CompletionRun(d - 1) ELSE 0

\* C6: streak always equals the number of consecutive calendar days, ending at
\* the current active date, on each of which at least one task was completed;
\* a day of reads only does not count.
C6_StreakCountsCompletionDays == streak = CompletionRun(lastActiveDate)

\* C7: every record in completedToday was completed on the date stored in
\* lastActiveDate.
C7_TodayOnly ==
    \A i \in 1..Len(completedToday) :
        DateOf(completedToday[i].completedAt) = lastActiveDate

\* a task was completed on an earlier day, its record was cleared, and a task
\* has been completed today
C7_Witness ==
    /\ completedToday # <<>>
    /\ lastActiveDate >= 1
    /\ \E d \in doneDays : d < lastActiveDate

\* C8: totalXP never goes down, whatever the operation, and is never below 0.
C8_XPMonotone ==
    /\ totalXP >= 0
    /\ [][totalXP' >= totalXP]_vars

\* XP earned on the first day is still there after the streak was reset
C8_Witness ==
    /\ totalXP >= 25
    /\ streak = 1
    /\ lastActiveDate >= 2
    /\ doneDays = {0}
    /\ completedToday = <<>>

\* C9: the message complete returns is chosen by the number k of records in
\* completedToday after the completion: the k-th of the five fixed messages for
\* k = 1..5, the generic message embedding k for every k > 5.
C9_MessageByCount ==
    [][\A id \in BurstIdParams : Complete(id) /\ Active(id) =>
        LET k == Len(completedToday')
        IN  CompleteReply(id).message =
              IF k <= 5 THEN Messages[k] ELSE GenericMessage(k)]_vars

\* C10: complete(id) and advanceStep(id) answer 404 whenever no active task
\* has that id, and then the active list and totalXP are unchanged and no
\* record is added to completedToday; once complete(id) has succeeded no later
\* complete or advanceStep awards XP for that id; delete(id) of an absent id
\* answers 200 and leaves the active list unchanged.
C10_NotFound ==
    /\ doneIds \cap ActiveIds = {}
    /\ \A id \in IdParams \cup doneIds : ~Active(id) =>
          /\ CompleteReply(id).status = 404
          /\ CompleteAfter(id).tasks = tasks
          /\ CompleteAfter(id).totalXP = totalXP
          /\ CompleteAfter(id).completedToday = TodaysList
          /\ NextStepReply(id).status = 404
          /\ NextStepAfter(id).tasks = tasks
          /\ NextStepAfter(id).totalXP = totalXP
          /\ DeleteReply(id).status = 200
          /\ DeleteAfter(id).tasks = tasks

\* a task has been completed; another task is active and XP has been earned;
\* complete and advanceStep of the completed id answer 404
C10_Witness ==
    /\ \E id \in doneIds :
          /\ CompleteReply(id).status = 404
          /\ NextStepReply(id).status = 404
    /\ Len(tasks) >= 1
    /\ totalXP > 0

\* the upstream attempt failed: it threw, or the text it returned (fences
\* aside) is not a JSON array of step objects with numeric minutes
WellFormedSteps(json) ==
    /\ json.type = "array"
    /\ \A i \in 1..Len(json.items) :
          /\ json.items[i].type = "object"
          /\ json.items[i].mins.type = "number"
UpstreamFailed(ai) == ai.threw \/ ~WellFormedSteps(ai.json)

FallbackAnswer(r) ==
    /\ r.answered
    /\ r.status = 200
    /\ r.poweredBy = "pattern-based (AI unavailable)"
    /\ Len(r.steps) >= 1
    /\ \A k \in 1..Len(r.steps) : r.steps[k] > 0

\* C11: when the upstream attempt of a POST /api/ai/breakdown with a truthy
\* task fails (throws or returns malformed data), the handler ends without a
\* second attempt and every reply it can give is 200 with poweredBy naming the
\* pattern-based fallback and at least one step, each of positive minutes;
\* the request is never left unanswered or answered with an error status.
C11_FallbackOnFailure ==
    [][\A i \in 1..Len(awaiting.breakdown), ai \in AIResults :
          UpstreamFailed(ai) /\ BreakdownReply(i, ai) =>
              /\ Len(awaiting'.breakdown) = Len(awaiting.breakdown) - 1
              /\ \A r \in BreakdownReplies(awaiting.breakdown[i], ai) :
                    FallbackAnswer(r)]_vars
====
